---- MODULE Spec2Model ----
(***************************************************************************)
(* Eratosthenes: wheel-factorised, concurrently marked Sieve of            *)
(* Eratosthenes (src/src/prime_gen.cpp with the prime_generator header of  *)
(* src/unnamed/part_001 and the table-driven mappings of                   *)
(* src/unnamed/part_000).                                                  *)
(*                                                                         *)
(* BigInteger and size_t are fixed-width unsigned integers; every          *)
(* arithmetic result is reduced modulo 2^BigIntBits.  The width and the    *)
(* two cache constants of the segmented controller are scaled down so that *)
(* the state space is finite and small; the inputs stay far below the      *)
(* width, as they do for the configured 64-bit build.                      *)
(***************************************************************************)
EXTENDS Integers, Sequences, FiniteSets, TLC

\* ------------------------------------------------------------------------
\* Bounds of the model
\* ------------------------------------------------------------------------

\* Largest argument n given to the four operations in Spec.
MaxN == 121

\* Argument of the two plain operations with which the
\* marking loop passes its first barrier and dispatches jobs after it
\* (41 * 41 = 1681).
BarrierN == 1681

\* Window sizes tried by the segmented controller: 1 .. MaxLimit, and the
\* two large windows below.
MaxLimit == 2

\* A window size for which limit_simple + 2 * limit <= limit_simple^2.
WideLimit == 36

\* A window size that covers the whole range above limit_simple for every
\* n <= MaxN.
WholeLimit == 56

\* Largest argument of the index mappings in SpecMap.
MaxMapArg == 2400
MaxAdjustArg == 120
MaxSeg5N == 130
MaxSieve7N == 130
MaxSqrtArg == 254
MaxRankArg == 253
MaxDivArg == 40
MaxKnown7 == 7

\* Largest argument n given to the two plain operations in SpecNarrow.
MaxNarrowN == 200

\* Number of successive calls of GetWheel5and7Increment in SpecWheel.
MaxWheelCalls == 150

\* Number of worker threads of the dispatch queue
\* (std::thread::hardware_concurrency()).  Every worker runs concurrently
\* with the controller; with two or more, marking jobs also run
\* concurrently with each other.
NumWorkers == 1

\* ------------------------------------------------------------------------
\* Program constants
\* ------------------------------------------------------------------------

\* Width of BigInteger / size_t (BIG_INT_BITS, scaled down from 64): the
\* build whose arguments stay far below 2^width.
BigIntBits == 29

\* A second, narrower build (BIG_INT_BITS scaled down further), in which
\* the arguments reach the upper quarter of the range of BigInteger.
NarrowBits == 8

\* limit_simple of the segmented controller (scaled down from 31457281).
limit_simple == 9

\* constexpr size_t limit = 7864321ULL; of part_000, scaled down; like the
\* source's value it is 1 modulo 30.
Limit5 == 31

\* BIG_INT_BITS of the build: the width of BigInteger and size_t.
VARIABLE width

Mod == 2 ^ width

Mask == Mod - 1

\* Unsigned fixed-width result of an arithmetic expression.
Wrap(x) == x % Mod

\* a * b modulo 2^BigIntBits, computed on 15-bit halves so that no
\* intermediate product leaves the range of the model checker's integers.
Mul(a, b) ==
    IF a < 32768 /\ b < 32768
    THEN Wrap(a * b)
    ELSE LET a0 == a % 32768
             a1 == a \div 32768
             b0 == b % 32768
             b1 == b \div 32768
             cross == (a1 * b0 + a0 * b1) % (2 ^ (BigIntBits - 15))
         IN  Wrap(a0 * b0 + 32768 * cross)

\* ~x
BitNot(x) == Mask - x

\* x | 1U
BitOr1(x) == IF x % 2 = 1 THEN x ELSE x + 1

\* x & 1U
BitAnd1(x) == x % 2

\* ------------------------------------------------------------------------
\* Index mappings of the prime_generator header (src/unnamed/part_001)
\* ------------------------------------------------------------------------

\* return (p << 1U) - 1U;
forward2(p) == Wrap(Wrap(p * 2) - 1)

\* return (p << 1U) + (~(~p | 1U)) - 1U;
forward(p) == Wrap(Wrap(Wrap(p * 2) + BitNot(BitOr1(BitNot(p)))) - 1)

\* Faulty variant of backward2: the convention of the other variant of the header,
\* return p >> 1U;
backward2_shiftOnly(p) == p \div 2

\* return (p + 1U) >> 1U;
backward2(p) == Wrap(p + 1) \div 2

\* return ((~((~n) | 1U)) / 3U) + 1U;
backward(n) == Wrap((BitNot(BitOr1(BitNot(n))) \div 3) + 1)

\* Faulty variant of wheel5Table: the entry 11 is replaced by 9.
wheel5Table_nine == <<1, 7, 9, 13, 17, 19, 23, 29>>

\* return (((((n + 1U) << 2U) / 5U + 1U) << 1U) / 3U + 1U) >> 1U;
backward5(n) ==
    Wrap(Wrap(Wrap(Wrap(Wrap(n + 1) * 4) \div 5 + 1) * 2) \div 3 + 1) \div 2

wheel5Table ==
    <<
       1, 7, 11, 13, 17, 19, 23, 29
    >>

wheel7Table ==
    <<
       1, 11, 13, 17, 19, 23, 29, 31, 37, 41, 43, 47, 53, 59, 61, 67,
       71, 73, 79, 83, 89, 97, 101, 103, 107, 109, 113, 121, 127, 131, 137, 139,
       143, 149, 151, 157, 163, 167, 169, 173, 179, 181, 187, 191, 193, 197, 199, 209
    >>

wheel11Table ==
    <<
       1, 13, 17, 19, 23, 29, 31, 37, 41, 43, 47, 53, 59, 61, 67, 71,
       73, 79, 83, 89, 97, 101, 103, 107, 109, 113, 127, 131, 137, 139, 149, 151,
       157, 163, 167, 169, 173, 179, 181, 191, 193, 197, 199, 211, 221, 223, 227, 229,
       233, 239, 241, 247, 251, 257, 263, 269, 271, 277, 281, 283, 289, 293, 299, 307,
       311, 313, 317, 323, 331, 337, 347, 349, 353, 359, 361, 367, 373, 377, 379, 383,
       389, 391, 397, 401, 403, 409, 419, 421, 431, 433, 437, 439, 443, 449, 457, 461,
       463, 467, 479, 481, 487, 491, 493, 499, 503, 509, 521, 523, 527, 529, 533, 541,
       547, 551, 557, 559, 563, 569, 571, 577, 587, 589, 593, 599, 601, 607, 611, 613,
       617, 619, 629, 631, 641, 643, 647, 653, 659, 661, 667, 673, 677, 683, 689, 691,
       697, 701, 703, 709, 713, 719, 727, 731, 733, 739, 743, 751, 757, 761, 767, 769,
       773, 779, 787, 793, 797, 799, 809, 811, 817, 821, 823, 827, 829, 839, 841, 851,
       853, 857, 859, 863, 871, 877, 881, 883, 887, 893, 899, 901, 907, 911, 919, 923,
       929, 937, 941, 943, 947, 949, 953, 961, 967, 971, 977, 983, 989, 991, 997, 1003,
       1007, 1009, 1013, 1019, 1021, 1027, 1031, 1033, 1037, 1039, 1049, 1051, 1061, 1063, 1069, 1073,
       1079, 1081, 1087, 1091, 1093, 1097, 1103, 1109, 1117, 1121, 1123, 1129, 1139, 1147, 1151, 1153,
       1157, 1159, 1163, 1171, 1181, 1187, 1189, 1193, 1201, 1207, 1213, 1217, 1219, 1223, 1229, 1231,
       1237, 1241, 1247, 1249, 1259, 1261, 1271, 1273, 1277, 1279, 1283, 1289, 1291, 1297, 1301, 1303,
       1307, 1313, 1319, 1321, 1327, 1333, 1339, 1343, 1349, 1357, 1361, 1363, 1367, 1369, 1373, 1381,
       1387, 1391, 1399, 1403, 1409, 1411, 1417, 1423, 1427, 1429, 1433, 1439, 1447, 1451, 1453, 1457,
       1459, 1469, 1471, 1481, 1483, 1487, 1489, 1493, 1499, 1501, 1511, 1513, 1517, 1523, 1531, 1537,
       1541, 1543, 1549, 1553, 1559, 1567, 1571, 1577, 1579, 1583, 1591, 1597, 1601, 1607, 1609, 1613,
       1619, 1621, 1627, 1633, 1637, 1643, 1649, 1651, 1657, 1663, 1667, 1669, 1679, 1681, 1691, 1693,
       1697, 1699, 1703, 1709, 1711, 1717, 1721, 1723, 1733, 1739, 1741, 1747, 1751, 1753, 1759, 1763,
       1769, 1777, 1781, 1783, 1787, 1789, 1801, 1807, 1811, 1817, 1819, 1823, 1829, 1831, 1843, 1847,
       1849, 1853, 1861, 1867, 1871, 1873, 1877, 1879, 1889, 1891, 1901, 1907, 1909, 1913, 1919, 1921,
       1927, 1931, 1933, 1937, 1943, 1949, 1951, 1957, 1961, 1963, 1973, 1979, 1987, 1993, 1997, 1999,
       2003, 2011, 2017, 2021, 2027, 2029, 2033, 2039, 2041, 2047, 2053, 2059, 2063, 2069, 2071, 2077,
       2081, 2083, 2087, 2089, 2099, 2111, 2113, 2117, 2119, 2129, 2131, 2137, 2141, 2143, 2147, 2153,
       2159, 2161, 2171, 2173, 2179, 2183, 2197, 2201, 2203, 2207, 2209, 2213, 2221, 2227, 2231, 2237,
       2239, 2243, 2249, 2251, 2257, 2263, 2267, 2269, 2273, 2279, 2281, 2287, 2291, 2293, 2297, 2309
    >>

\* std::lower_bound over a residue table: the 0-based position of the first
\* entry that is not less than v (the table length when there is none).
LowerBound(table, v) == Cardinality({j \in 1..Len(table) : table[j] < v})

\* wheel5[p % 8U] + (p / 8U) * 30U  (the C++ table is 0-based)
forward5(p) == Wrap(wheel5Table[(p % 8) + 1] + Mul(p \div 8, 30))

\* distance(wheel5, lower_bound(wheel5, wheel5 + 8U, n % 30U)) + 8U * (n / 30U) + 1U
backward5T(n) == Wrap(LowerBound(wheel5Table, n % 30) + Mul(8, n \div 30) + 1)

\* wheel7[p % 48U] + (p / 48U) * 210U
forward7(p) == Wrap(wheel7Table[(p % 48) + 1] + Mul(p \div 48, 210))

\* distance(wheel7, lower_bound(wheel7, wheel7 + 48U, n % 210U)) + 48U * (n / 210U) + 1U
backward7(n) == Wrap(LowerBound(wheel7Table, n % 210) + Mul(48, n \div 210) + 1)

\* wheel11[p % 480U] + (p / 480U) * 2310U
forward11(p) == Wrap(wheel11Table[(p % 480) + 1] + Mul(p \div 480, 2310))

\* distance(wheel11, lower_bound(wheel11, wheel11 + 480U, n % 2310U)) + 480U * (n / 2310U) + 1U
backward11(n) == Wrap(LowerBound(wheel11Table, n % 2310) + Mul(480, n \div 2310) + 1)

\* Integer square root by bisection (header lines 121-145).
RECURSIVE sqrtLoop(_, _, _, _)
sqrtLoop(toTest, start, end, ans) ==
    LET mid == Wrap(start + end) \div 2
        sqr == Mul(mid, mid)
    IN  IF sqr = toTest
        THEN mid
        ELSE LET start1 == IF sqr < toTest THEN Wrap(mid + 1) ELSE start
                 ans1   == IF sqr < toTest THEN mid ELSE ans
                 end1   == IF sqr < toTest THEN end ELSE Wrap(mid - 1)
             IN  IF start1 <= end1
                 THEN sqrtLoop(toTest, start1, end1, ans1)
                 ELSE ans1

\* BigInteger start = 1U, end = toTest >> 1U, ans = 0U; do { ... } while (start <= end);
sqrt(toTest) == sqrtLoop(toTest, 1, toTest \div 2, 0)

\* Initial bit patterns of the two rotating registers.
\* unsigned short wheel5 = 129U;
Wheel5Init == 129

\* unsigned long long wheel7 = 9009416540524545ULL; the register is kept as
\* the set of its set bit positions (bits 0, 12, 19, 23, 30, 34, 41, 53).
Wheel7Init == {0, 12, 19, 23, 30, 34, 41, 53}

\* Faulty variant of OrWheel5Back: the bit re-enters one position lower.
OrWheel5Back_bit8(w) == IF (w \div 256) % 2 = 1 THEN w ELSE w + 256

\* wheel5 |= wheel5Back  (1U << 9U)
OrWheel5Back(w) == IF (w \div 512) % 2 = 1 THEN w ELSE w + 512

\* Faulty variant of OrWheel7Back: the bit re-enters one position lower.
OrWheel7Back_bit54(w) == w \cup {54}

\* wheel7 |= wheel7Back  (1ULL << 55U)
OrWheel7Back(w) == w \cup {55}

\* The do-while loop of GetWheel5and7Increment: rotates the registers and
\* returns them together with the increment.
RECURSIVE wheelLoop(_, _, _)
wheelLoop(w5, w7, wheelIncrement) ==
    LET s5 == w5 \div 2
        s7 == {b - 1 : b \in w7 \ {0}}
    IN  IF w5 % 2 = 1
        THEN wheelLoop(OrWheel5Back(s5), w7, wheelIncrement + 1)
        ELSE IF 0 \in w7
             THEN wheelLoop(s5, OrWheel7Back(s7), wheelIncrement + 1)
             ELSE [wheel5 |-> s5, wheel7 |-> s7, inc |-> wheelIncrement + 1]

GetWheel5and7Increment(w5, w7) == wheelLoop(w5, w7, 0)

\* std::upper_bound on a sorted vector: the number of elements <= v.
UpperBound(vec, v) == Cardinality({j \in 1..Len(vec) : vec[j] <= v})

\* Prefix of a vector.
Prefix(vec, len) == [j \in 1..len |-> vec[j]]

\* ------------------------------------------------------------------------
\* Reference: primes by trial division
\* ------------------------------------------------------------------------

IsPrime(x) == x >= 2 /\ \A d \in 2..(x - 1) : d * d > x \/ x % d # 0

PrimeSet(x) == {q \in 2..x : IsPrime(q)}

Range(s) == {s[j] : j \in 1..Len(s)}

StrictlyIncreasing(s) == \A j \in 1..(Len(s) - 1) : s[j] < s[j + 1]

\* ------------------------------------------------------------------------
\* State
\* ------------------------------------------------------------------------

VARIABLES
    n,               \* the argument the client passes to the four operations
    todo,            \* calls the client still makes; Head(todo) is running
    res,             \* results of the completed calls, by call
    pc,              \* position of the controller thread
    ret,             \* who called the running sieve: "top", "delegate", "bootstrap"
    sn,              \* const BigInteger& n of SieveOfEratosthenes / CountPrimesTo
    knownPrimes,     \* std::vector<BigInteger> knownPrimes
    notPrime,        \* the bit array, as the set of indices holding true
    marks,           \* writes made to the bit array: <<prime of the job, index>>
    cardinality,     \* last index of the allocated bit array
    threadBoundary,  \* BigInteger threadBoundary
    wheel5,          \* unsigned short wheel5
    wheel7,          \* unsigned long long wheel7, as the set of its set bits
    o,               \* size_t o
    p,               \* const BigInteger p of the controller loops
    count,           \* BigInteger count / size_t count
    gn,              \* BigInteger n of the segmented operations (adjusted)
    nCardinality,    \* const size_t nCardinality
    low,             \* size_t low
    high,            \* size_t high
    fLo,             \* const BigInteger fLo
    sqrtIndex,       \* const size_t sqrtIndex
    k,               \* size_t k of the dispatch loop
    sqrtnp1,         \* const BigInteger sqrtnp1
    practicalLimit,  \* const BigInteger practicalLimit
    queue,           \* jobs dispatched and not yet taken by a worker
    running,         \* jobs a worker is executing
    m                \* the index mapping under test: argument and images

harnessVars == <<width, n, todo, res>>

sieveVars == <<sn, knownPrimes, notPrime, marks, cardinality, threadBoundary, wheel5, wheel7, o, p, count>>

segVars == <<gn, nCardinality, low, high, fLo, sqrtIndex, k, sqrtnp1, practicalLimit>>

poolVars == <<queue, running>>

vars == <<harnessVars, pc, ret, sieveVars, segVars, poolVars, m>>

\* ------------------------------------------------------------------------
\* The client: sieve(n), count(n), then segmented_sieve and segmented_count
\* for each window size
\* ------------------------------------------------------------------------

Limits == (1..MaxLimit) \cup {WideLimit, WholeLimit}

RECURSIVE segCalls(_)
segCalls(ls) ==
    IF ls = {}
    THEN <<>>
    ELSE LET l == CHOOSE x \in ls : \A y \in ls : x <= y
         IN  <<<<"segsieve", l>>, <<"segcount", l>>>> \o segCalls(ls \ {l})

SieveSchedule == <<<<"sieve", 0>>, <<"count", 0>>>>

FullSchedule == SieveSchedule \o segCalls(Limits)

\* The operation that is running and its window size.
op == IF todo = <<>> THEN "none" ELSE Head(todo)[1]

limit == IF todo = <<>> THEN 0 ELSE Head(todo)[2]

\* The running call returns v to the client.
Return(v) ==
    /\ res' = (Head(todo) :> v) @@ res
    /\ todo' = Tail(todo)
    /\ pc' = "idle"
    /\ UNCHANGED <<width, n>>

\* ------------------------------------------------------------------------
\* Dispatch queue (dispatchqueue.hpp is not part of the sources; dispatch
\* and finish follow the Task Dispatcher contract)
\* ------------------------------------------------------------------------

\* dispatch.finish() returns only when no job is queued or running.
PoolIdle == queue = <<>> /\ running = {}

Outstanding == Range(queue) \cup running

\* A worker thread takes the oldest queued job.
WorkerTake ==
    /\ queue # <<>>
    /\ Cardinality(running) < NumWorkers
    /\ running' = running \cup {Head(queue)}
    /\ queue' = Tail(queue)
    /\ UNCHANGED <<harnessVars, pc, ret, sieveVars, segVars, m>>

\* ------------------------------------------------------------------------
\* Marking job of SieveOfEratosthenes / CountPrimesTo (lambda, lines 80-121)
\* ------------------------------------------------------------------------

\* Faulty variant of SetCells: the cells are inverted instead of set.
SetCells_inverting(array, cells) == (array \ cells) \cup (cells \ array)

\* notPrime[...] = true; the only statement of a job that touches shared
\* state.
SetCells(array, cells) == array \cup cells

\* The job as dispatched: i = p * p, at the half iteration when p % 3 == 2.
SieveJob(q) ==
    [kind |-> "mark", p |-> q, i |-> Mul(q, q),
     at |-> IF q % 3 = 2 THEN "half" ELSE "first"]

\* Cells the next step of the job sets to true.
SieveJobWrites(j) ==
    IF j.at = "half" \/ j.i % 5 # 0 THEN {backward5(j.i)} ELSE {}

\* Faulty variant of SieveJobAdvance: every step adds p2.
SieveJobAdvance_alwaysP2(j) == Wrap(j.i + Wrap(j.p * 2))

\* i after the next step: += p2 in the half and second step, += p4 in the first.
SieveJobAdvance(j) ==
    IF j.at = "first" THEN Wrap(j.i + Wrap(j.p * 4)) ELSE Wrap(j.i + Wrap(j.p * 2))

\* Position of the job after the step.
SieveJobAt(j) == IF j.at = "first" THEN "second" ELSE "first"

\* One step of a running marking job: at most one write, the increment of i
\* and the test i > n (n captured by reference).
SieveJobStep ==
    /\ \E j \in running :
        /\ j.kind = "mark"
        /\ notPrime' = SetCells(notPrime, SieveJobWrites(j))
        /\ marks' = marks \cup {<<j.p, c>> : c \in SieveJobWrites(j)}
        /\ running' =
              IF SieveJobAdvance(j) > sn
              THEN running \ {j}
              ELSE (running \ {j}) \cup
                   {[j EXCEPT !.i = SieveJobAdvance(j), !.at = SieveJobAt(j)]}
    /\ UNCHANGED <<harnessVars, pc, ret, segVars, queue, m>>
    /\ UNCHANGED <<sn, knownPrimes, cardinality, threadBoundary, wheel5, wheel7, o, p, count>>

\* ------------------------------------------------------------------------
\* SieveOfEratosthenes (prime_gen.cpp lines 24-142)
\* ------------------------------------------------------------------------

BasePrimes == <<2, 3, 5, 7>>

\* BigInteger threadBoundary = 36U;
ThreadBoundaryInit == 36

\* Faulty variant of NextThreadBoundary: the boundary is left as it was.
NextThreadBoundary_notSquared(tb) == tb

\* threadBoundary *= threadBoundary;
NextThreadBoundary(tb) == Mul(tb, tb)

\* Faulty variant of PastSquareRoot: (p * p) >= n
PastSquareRoot_orEqual(q, bound) == Mul(q, q) >= bound

\* (p * p) > n
PastSquareRoot(q, bound) == Mul(q, q) > bound

\* Entry of SieveOfEratosthenes(arg), lines 26-60: the two early returns, or
\* the allocation of the bit array and the initial loop state.
SieveOfEratosthenes(arg) ==
    /\ sn' = arg
    /\ IF arg < 2
       THEN /\ knownPrimes' = <<>>
            /\ pc' = "sieve_ret"
            /\ UNCHANGED <<notPrime, marks, cardinality, threadBoundary, wheel5, wheel7, o>>
       ELSE IF arg < Wrap(BasePrimes[4] + 2)
       THEN /\ knownPrimes' = Prefix(BasePrimes, UpperBound(BasePrimes, arg))
            /\ pc' = "sieve_ret"
            /\ UNCHANGED <<notPrime, marks, cardinality, threadBoundary, wheel5, wheel7, o>>
       ELSE /\ knownPrimes' = BasePrimes
            /\ cardinality' = backward5(arg)
            /\ notPrime' = {}
            /\ marks' = {}
            /\ threadBoundary' = ThreadBoundaryInit
            /\ wheel5' = Wheel5Init
            /\ wheel7' = Wheel7Init
            /\ o' = 1
            /\ pc' = "sieve_loop"
    /\ UNCHANGED <<p, count>>

\* The client calls sieve(n).
CallSieve ==
    /\ pc = "idle"
    /\ op = "sieve"
    /\ SieveOfEratosthenes(n)
    /\ ret' = "top"
    /\ UNCHANGED <<harnessVars, segVars, poolVars, m>>

\* Lines 62-72: next candidate, the p * p > n cutoff, the barrier test.
SieveMark ==
    /\ pc = "sieve_loop"
    /\ LET w == GetWheel5and7Increment(wheel5, wheel7)
           o1 == Wrap(o + w.inc)
           p1 == forward(o1)
       IN  /\ wheel5' = w.wheel5
           /\ wheel7' = w.wheel7
           /\ o' = o1
           /\ p' = p1
           /\ pc' = IF PastSquareRoot(p1, sn) THEN "sieve_finish"
                    ELSE IF threadBoundary < p1 THEN "sieve_barrier"
                    ELSE "sieve_read"
    /\ UNCHANGED <<harnessVars, ret, segVars, poolVars, m>>
    /\ UNCHANGED <<sn, knownPrimes, notPrime, marks, cardinality, threadBoundary, count>>

\* Lines 70-71: dispatch.finish(); threadBoundary *= threadBoundary;
SieveBarrier ==
    /\ pc = "sieve_barrier"
    /\ PoolIdle
    /\ threadBoundary' = NextThreadBoundary(threadBoundary)
    /\ pc' = "sieve_read"
    /\ UNCHANGED <<harnessVars, ret, segVars, poolVars, m>>
    /\ UNCHANGED <<sn, knownPrimes, notPrime, marks, cardinality, wheel5, wheel7, o, p, count>>

\* Lines 74-121: read the candidate's cell; an unmarked candidate is
\* appended and its marking job dispatched.
SieveRead ==
    /\ pc = "sieve_read"
    /\ IF backward5(p) \in notPrime
       THEN UNCHANGED <<knownPrimes, queue>>
       ELSE /\ knownPrimes' = Append(knownPrimes, p)
            /\ queue' = Append(queue, SieveJob(p))
    /\ pc' = "sieve_loop"
    /\ UNCHANGED <<harnessVars, ret, segVars, running, m>>
    /\ UNCHANGED <<sn, notPrime, marks, cardinality, threadBoundary, wheel5, wheel7, o, p, count>>

\* Faulty variant of LoopFinished: the call returns at once.
LoopFinished_notWaiting == TRUE

\* dispatch.finish() after the marking loop (lines 124 and 249) returns.
LoopFinished == PoolIdle

\* Line 124: dispatch.finish();
SieveFinish ==
    /\ pc = "sieve_finish"
    /\ LoopFinished
    /\ pc' = "sieve_drain"
    /\ UNCHANGED <<harnessVars, ret, sieveVars, segVars, poolVars, m>>

\* Lines 126-139: one iteration of the drain loop, or its exit.
SieveDrain ==
    /\ pc = "sieve_drain"
    /\ LET p1 == forward(o)
           w == GetWheel5and7Increment(wheel5, wheel7)
       IN  IF p1 > sn
           THEN /\ pc' = "sieve_ret"
                /\ UNCHANGED <<wheel5, wheel7, o, p, knownPrimes>>
           ELSE /\ p' = p1
                /\ o' = Wrap(o + w.inc)
                /\ wheel5' = w.wheel5
                /\ wheel7' = w.wheel7
                /\ knownPrimes' = IF backward5(p1) \in notPrime
                                  THEN knownPrimes
                                  ELSE Append(knownPrimes, p1)
                /\ pc' = "sieve_drain"
    /\ UNCHANGED <<harnessVars, ret, segVars, poolVars, m>>
    /\ UNCHANGED <<sn, notPrime, marks, cardinality, threadBoundary, count>>

\* return knownPrimes; to the client.
SieveReturn ==
    /\ pc = "sieve_ret"
    /\ op = "sieve"
    /\ Return(knownPrimes)
    /\ UNCHANGED <<ret, sieveVars, segVars, poolVars, m>>

\* ------------------------------------------------------------------------
\* CountPrimesTo (prime_gen.cpp lines 150-267)
\* ------------------------------------------------------------------------

\* Entry of CountPrimesTo(arg), lines 152-185.
CountPrimesTo(arg) ==
    /\ sn' = arg
    /\ IF arg < 2
       THEN /\ count' = 0
            /\ pc' = "count_ret"
            /\ UNCHANGED <<notPrime, marks, cardinality, threadBoundary, wheel5, wheel7, o>>
       ELSE IF arg < 11
       THEN /\ count' = UpperBound(BasePrimes, arg)
            /\ pc' = "count_ret"
            /\ UNCHANGED <<notPrime, marks, cardinality, threadBoundary, wheel5, wheel7, o>>
       ELSE /\ cardinality' = backward5(arg)
            /\ notPrime' = {}
            /\ marks' = {}
            /\ threadBoundary' = ThreadBoundaryInit
            /\ wheel5' = Wheel5Init
            /\ wheel7' = Wheel7Init
            /\ o' = 1
            /\ count' = 4
            /\ pc' = "count_loop"
    /\ UNCHANGED <<p, knownPrimes>>

\* The client calls count(n).
CallCount ==
    /\ pc = "idle"
    /\ op = "count"
    /\ CountPrimesTo(n)
    /\ ret' = "top"
    /\ UNCHANGED <<harnessVars, segVars, poolVars, m>>

\* Lines 187-197.
CountMark ==
    /\ pc = "count_loop"
    /\ LET w == GetWheel5and7Increment(wheel5, wheel7)
           o1 == Wrap(o + w.inc)
           p1 == forward(o1)
       IN  /\ wheel5' = w.wheel5
           /\ wheel7' = w.wheel7
           /\ o' = o1
           /\ p' = p1
           /\ pc' = IF PastSquareRoot(p1, sn) THEN "count_finish"
                    ELSE IF threadBoundary < p1 THEN "count_barrier"
                    ELSE "count_read"
    /\ UNCHANGED <<harnessVars, ret, segVars, poolVars, m>>
    /\ UNCHANGED <<sn, knownPrimes, notPrime, marks, cardinality, threadBoundary, count>>

\* Lines 195-196.
CountBarrier ==
    /\ pc = "count_barrier"
    /\ PoolIdle
    /\ threadBoundary' = NextThreadBoundary(threadBoundary)
    /\ pc' = "count_read"
    /\ UNCHANGED <<harnessVars, ret, segVars, poolVars, m>>
    /\ UNCHANGED <<sn, knownPrimes, notPrime, marks, cardinality, wheel5, wheel7, o, p, count>>

\* Lines 199-246: ++count and dispatch for an unmarked candidate.
CountRead ==
    /\ pc = "count_read"
    /\ IF backward5(p) \in notPrime
       THEN UNCHANGED <<count, queue>>
       ELSE /\ count' = Wrap(count + 1)
            /\ queue' = Append(queue, SieveJob(p))
    /\ pc' = "count_loop"
    /\ UNCHANGED <<harnessVars, ret, segVars, running, m>>
    /\ UNCHANGED <<sn, knownPrimes, notPrime, marks, cardinality, threadBoundary, wheel5, wheel7, o, p>>

\* Line 249.
CountFinish ==
    /\ pc = "count_finish"
    /\ LoopFinished
    /\ pc' = "count_drain"
    /\ UNCHANGED <<harnessVars, ret, sieveVars, segVars, poolVars, m>>

\* Faulty variant of CountUnmarked: the cell is not consulted.
CountUnmarked_always(c, cell) == Wrap(c + 1)

\* Lines 259-263: if (notPrime[backward5(p)]) { continue; } ++count;
CountUnmarked(c, cell) == IF cell \in notPrime THEN c ELSE Wrap(c + 1)

\* Lines 251-264: one iteration of the drain loop, or its exit.
CountDrain ==
    /\ pc = "count_drain"
    /\ LET p1 == forward(o)
           w == GetWheel5and7Increment(wheel5, wheel7)
       IN  IF p1 > sn
           THEN /\ pc' = "count_ret"
                /\ UNCHANGED <<wheel5, wheel7, o, p, count>>
           ELSE /\ p' = p1
                /\ o' = Wrap(o + w.inc)
                /\ wheel5' = w.wheel5
                /\ wheel7' = w.wheel7
                /\ count' = CountUnmarked(count, backward5(p1))
                /\ pc' = "count_drain"
    /\ UNCHANGED <<harnessVars, ret, segVars, poolVars, m>>
    /\ UNCHANGED <<sn, knownPrimes, notPrime, marks, cardinality, threadBoundary>>

\* return count; to the client.
CountReturn ==
    /\ pc = "count_ret"
    /\ op = "count"
    /\ Return(count)
    /\ UNCHANGED <<ret, sieveVars, segVars, poolVars, m>>

\* ------------------------------------------------------------------------
\* Window marking job of the segmented operations (lambda, lines 314-340)
\* ------------------------------------------------------------------------

\* The job as dispatched; i is computed when the job starts.
SegJob(q) == [kind |-> "seg", p |-> q, i |-> 0, at |-> "init"]

\* Lines 322-328: the first odd multiple of q that is not below fLo.
FirstOddMultiple(lo, q) ==
    LET i0 == Mul(lo \div q, q)
        i1 == IF i0 < lo THEN Wrap(i0 + q) ELSE i0
    IN  IF BitAnd1(i1) = 0 THEN Wrap(i1 + q) ELSE i1

\* i at the head of the next loop iteration of the job.
SegJobI(j) == IF j.at = "init" THEN FirstOddMultiple(fLo, j.p) ELSE j.i

\* const size_t o = backward2(i) - low;
SegJobOffset(j) == Wrap(backward2(SegJobI(j)) - low)

\* One loop iteration of a running window job (fLo, low and cardinality
\* captured by reference): exit when o > cardinality, else one write.
SegJobStep ==
    /\ \E j \in running :
        /\ j.kind = "seg"
        /\ IF SegJobOffset(j) > cardinality
           THEN /\ running' = running \ {j}
                /\ UNCHANGED <<notPrime, marks>>
           ELSE /\ notPrime' = SetCells(notPrime, {SegJobOffset(j)})
                /\ marks' = marks \cup {<<j.p, SegJobOffset(j)>>}
                /\ running' = (running \ {j}) \cup
                      {[j EXCEPT !.i = Wrap(SegJobI(j) + Wrap(j.p * 2)), !.at = "loop"]}
    /\ UNCHANGED <<harnessVars, pc, ret, segVars, queue, m>>
    /\ UNCHANGED <<sn, knownPrimes, cardinality, threadBoundary, wheel5, wheel7, o, p, count>>

\* ------------------------------------------------------------------------
\* SegmentedSieveOfEratosthenes (prime_gen.cpp lines 269-357)
\* ------------------------------------------------------------------------

\* if (!(n & 1U)) { --n; }
MakeOdd(x) == IF BitAnd1(x) = 0 THEN Wrap(x - 1) ELSE x

\* Faulty variant of SqrtIndex: the bound is taken below the square root.
SqrtIndex_belowRoot(primes, hi) == UpperBound(primes, Wrap(sqrt(forward2(hi)) - 1))

\* Number of the factor-base primes that get a job in the window ending at hi.
SqrtIndex(primes, hi) == UpperBound(primes, Wrap(sqrt(forward2(hi)) + 1))

\* Faulty variant of ClampHigh: the last index is left out.
ClampHigh_belowEnd(h, nc) == IF h >= nc THEN nc - 1 ELSE h

\* Faulty variant of ClampHigh: the last window is not cut at n.
ClampHigh_notCut(h, nc) == h

\* if (high > nCardinality) { high = nCardinality; }
ClampHigh(h, nc) == IF h > nc THEN nc ELSE h

\* Faulty variant of NextLow: the next window starts on the last cell of this one.
NextLow_overlapping(lw, lim) == Wrap(Wrap(lw + lim) - 1)

\* low = low + limit;
NextLow(lw, lim) == Wrap(lw + lim)

\* Faulty variant of WindowFinished: running jobs are not waited for.
WindowFinished_queueOnly == queue = <<>>

\* Faulty variant of WindowFinished: the controller does not wait.
WindowFinished_notWaiting == TRUE

\* dispatch.finish(); after the dispatch loop of a window (lines 342, 438).
WindowFinished == PoolIdle

\* Lines 282-288: parity adjustment, then delegation or bootstrap.
CallSegSieve ==
    /\ pc = "idle"
    /\ op = "segsieve"
    /\ gn' = MakeOdd(n)
    /\ IF limit_simple >= MakeOdd(n)
       THEN SieveOfEratosthenes(MakeOdd(n)) /\ ret' = "delegate"
       ELSE SieveOfEratosthenes(limit_simple) /\ ret' = "bootstrap"
    /\ UNCHANGED <<harnessVars, poolVars, m>>
    /\ UNCHANGED <<nCardinality, low, high, fLo, sqrtIndex, k, sqrtnp1, practicalLimit>>

\* Line 286: return SieveOfEratosthenes(n);
SegSieveDelegateReturn ==
    /\ pc = "sieve_ret"
    /\ op = "segsieve"
    /\ ret = "delegate"
    /\ Return(knownPrimes)
    /\ UNCHANGED <<ret, sieveVars, segVars, poolVars, m>>

\* Lines 288-294: the bootstrap sieve has returned.
SegSieveSetup ==
    /\ pc = "sieve_ret"
    /\ op = "segsieve"
    /\ ret = "bootstrap"
    /\ nCardinality' = backward2(gn)
    /\ low' = backward2(limit_simple)
    /\ high' = Wrap(backward2(limit_simple) + limit)
    /\ pc' = "seg_while"
    /\ UNCHANGED <<harnessVars, ret, sieveVars, poolVars, m>>
    /\ UNCHANGED <<gn, fLo, sqrtIndex, k, sqrtnp1, practicalLimit>>

\* Lines 297-310: loop test, clamp of high, the window's fLo, sqrtIndex and
\* bit array; line 356 when the loop ends.
SegSieveWindow ==
    /\ pc = "seg_while"
    /\ IF low < nCardinality
       THEN LET high1 == ClampHigh(high, nCardinality)
            IN  /\ high' = high1
                /\ fLo' = forward2(low)
                /\ sqrtIndex' = SqrtIndex(knownPrimes, high1)
                /\ cardinality' = Wrap(high1 - low)
                /\ notPrime' = {}
                /\ marks' = {}
                /\ k' = 1
                /\ pc' = "seg_dispatch"
                /\ UNCHANGED <<harnessVars>>
       ELSE /\ Return(knownPrimes)
            /\ UNCHANGED <<high, fLo, sqrtIndex, cardinality, notPrime, marks, k>>
    /\ UNCHANGED <<ret, poolVars, m>>
    /\ UNCHANGED <<sn, knownPrimes, threadBoundary, wheel5, wheel7, o, p, count>>
    /\ UNCHANGED <<gn, nCardinality, low, sqrtnp1, practicalLimit>>

\* Lines 312-341: one iteration of the dispatch loop, or its exit.
SegSieveDispatch ==
    /\ pc = "seg_dispatch"
    /\ IF k < sqrtIndex
       THEN /\ queue' = Append(queue, SegJob(knownPrimes[k + 1]))
            /\ k' = k + 1
            /\ pc' = "seg_dispatch"
       ELSE /\ pc' = "seg_finish"
            /\ UNCHANGED <<queue, k>>
    /\ UNCHANGED <<harnessVars, ret, sieveVars, running, m>>
    /\ UNCHANGED <<gn, nCardinality, low, high, fLo, sqrtIndex, sqrtnp1, practicalLimit>>

\* Line 342: dispatch.finish();
SegSieveFinish ==
    /\ pc = "seg_finish"
    /\ WindowFinished
    /\ o' = 1
    /\ pc' = "seg_scan"
    /\ UNCHANGED <<harnessVars, ret, segVars, poolVars, m>>
    /\ UNCHANGED <<sn, knownPrimes, notPrime, marks, cardinality, threadBoundary, wheel5, wheel7, p, count>>

\* Lines 345-353: one iteration of the scan, or the advance of low and high.
SegSieveScan ==
    /\ pc = "seg_scan"
    /\ IF o <= cardinality
       THEN /\ knownPrimes' = IF o \in notPrime
                              THEN knownPrimes
                              ELSE Append(knownPrimes, forward2(Wrap(o + low)))
            /\ o' = o + 1
            /\ pc' = "seg_scan"
            /\ UNCHANGED <<low, high>>
       ELSE /\ low' = NextLow(low, limit)
            /\ high' = Wrap(NextLow(low, limit) + limit)
            /\ pc' = "seg_while"
            /\ UNCHANGED <<knownPrimes, o>>
    /\ UNCHANGED <<harnessVars, ret, poolVars, m>>
    /\ UNCHANGED <<sn, notPrime, marks, cardinality, threadBoundary, wheel5, wheel7, p, count>>
    /\ UNCHANGED <<gn, nCardinality, fLo, sqrtIndex, k, sqrtnp1, practicalLimit>>

\* ------------------------------------------------------------------------
\* SegmentedCountPrimesTo (prime_gen.cpp lines 359-464)
\* ------------------------------------------------------------------------

\* ((sqrtnp1 < limit_simple) ? sqrtnp1 : limit_simple) | 1U
PracticalLimit(s) == BitOr1(IF s < limit_simple THEN s ELSE limit_simple)

\* Lines 372-380: parity adjustment, then delegation or bootstrap.
CallSegCount ==
    /\ pc = "idle"
    /\ op = "segcount"
    /\ gn' = MakeOdd(n)
    /\ IF limit_simple >= MakeOdd(n)
       THEN /\ CountPrimesTo(MakeOdd(n))
            /\ ret' = "delegate"
            /\ UNCHANGED <<sqrtnp1, practicalLimit>>
       ELSE /\ sqrtnp1' = Wrap(sqrt(MakeOdd(n)) + 1)
            /\ practicalLimit' = PracticalLimit(Wrap(sqrt(MakeOdd(n)) + 1))
            /\ SieveOfEratosthenes(PracticalLimit(Wrap(sqrt(MakeOdd(n)) + 1)))
            /\ ret' = "bootstrap"
    /\ UNCHANGED <<harnessVars, poolVars, m>>
    /\ UNCHANGED <<nCardinality, low, high, fLo, sqrtIndex, k>>

\* Line 376: return CountPrimesTo(n);
SegCountDelegateReturn ==
    /\ pc = "count_ret"
    /\ op = "segcount"
    /\ Return(count)
    /\ UNCHANGED <<ret, sieveVars, segVars, poolVars, m>>

\* Lines 380-389: the bootstrap sieve has returned.
SegCountSetup ==
    /\ pc = "sieve_ret"
    /\ op = "segcount"
    /\ count' = Len(knownPrimes)
    /\ nCardinality' = backward2(gn)
    /\ low' = backward2(practicalLimit)
    /\ high' = Wrap(backward2(practicalLimit) + limit)
    /\ pc' = "segc_while"
    /\ UNCHANGED <<harnessVars, ret, poolVars, m>>
    /\ UNCHANGED <<sn, knownPrimes, notPrime, marks, cardinality, threadBoundary, wheel5, wheel7, o, p>>
    /\ UNCHANGED <<gn, fLo, sqrtIndex, k, sqrtnp1, practicalLimit>>

\* Lines 392-404, and line 463 when the loop ends.
SegCountWindow ==
    /\ pc = "segc_while"
    /\ IF low < nCardinality
       THEN LET high1 == ClampHigh(high, nCardinality)
            IN  /\ high' = high1
                /\ fLo' = forward2(low)
                /\ sqrtIndex' = SqrtIndex(knownPrimes, high1)
                /\ cardinality' = Wrap(high1 - low)
                /\ notPrime' = {}
                /\ marks' = {}
                /\ k' = 1
                /\ pc' = "segc_dispatch"
                /\ UNCHANGED <<harnessVars>>
       ELSE /\ Return(count)
            /\ UNCHANGED <<high, fLo, sqrtIndex, cardinality, notPrime, marks, k>>
    /\ UNCHANGED <<ret, poolVars, m>>
    /\ UNCHANGED <<sn, knownPrimes, threadBoundary, wheel5, wheel7, o, p, count>>
    /\ UNCHANGED <<gn, nCardinality, low, sqrtnp1, practicalLimit>>

\* Lines 408-437.
SegCountDispatch ==
    /\ pc = "segc_dispatch"
    /\ IF k < sqrtIndex
       THEN /\ queue' = Append(queue, SegJob(knownPrimes[k + 1]))
            /\ k' = k + 1
            /\ pc' = "segc_dispatch"
       ELSE /\ pc' = "segc_finish"
            /\ UNCHANGED <<queue, k>>
    /\ UNCHANGED <<harnessVars, ret, sieveVars, running, m>>
    /\ UNCHANGED <<gn, nCardinality, low, high, fLo, sqrtIndex, sqrtnp1, practicalLimit>>

\* Line 438: dispatch.finish();
SegCountFinish ==
    /\ pc = "segc_finish"
    /\ WindowFinished
    /\ o' = 1
    /\ pc' = "segc_scan"
    /\ UNCHANGED <<harnessVars, ret, segVars, poolVars, m>>
    /\ UNCHANGED <<sn, knownPrimes, notPrime, marks, cardinality, threadBoundary, wheel5, wheel7, p, count>>

\* knownPrimes.back()
Back(vec) == vec[Len(vec)]

\* Lines 440-460: one iteration of either scan loop (count only once the
\* factor base has passed sqrtnp1, else count and extend the factor base),
\* or the advance of low and high.  The test knownPrimes.back() > sqrtnp1
\* is made before the loop; no iteration changes its outcome, because the
\* extending loop appends only p <= sqrtnp1.
SegCountScan ==
    /\ pc = "segc_scan"
    /\ IF o <= cardinality
       THEN /\ count' = IF o \in notPrime THEN count ELSE Wrap(count + 1)
            /\ knownPrimes' =
                  IF /\ ~(Back(knownPrimes) > sqrtnp1)
                     /\ o \notin notPrime
                     /\ forward2(Wrap(o + low)) <= sqrtnp1
                  THEN Append(knownPrimes, forward2(Wrap(o + low)))
                  ELSE knownPrimes
            /\ o' = o + 1
            /\ pc' = "segc_scan"
            /\ UNCHANGED <<low, high>>
       ELSE /\ low' = NextLow(low, limit)
            /\ high' = Wrap(NextLow(low, limit) + limit)
            /\ pc' = "segc_while"
            /\ UNCHANGED <<knownPrimes, o, count>>
    /\ UNCHANGED <<harnessVars, ret, poolVars, m>>
    /\ UNCHANGED <<sn, notPrime, marks, cardinality, threadBoundary, wheel5, wheel7, p>>
    /\ UNCHANGED <<gn, nCardinality, fLo, sqrtIndex, k, sqrtnp1, practicalLimit>>

\* ------------------------------------------------------------------------
\* The index mappings applied to an argument, in both orders
\* ------------------------------------------------------------------------

\* Wheel bases of the mapping pairs: forward2/backward2, forward/backward,
\* forward5/backward5, forward7/backward7, forward11/backward11.
WheelBases == {2, 6, 30, 210, 2310}

Forward(base, x) ==
    CASE base = 2 -> forward2(x)
      [] base = 6 -> forward(x)
      [] base = 30 -> forward5(x)
      [] base = 210 -> forward7(x)
      [] base = 2310 -> forward11(x)

Backward(base, x) ==
    CASE base = 2 -> backward2(x)
      [] base = 6 -> backward(x)
      [] base = 30 -> backward5T(x)
      [] base = 210 -> backward7(x)
      [] base = 2310 -> backward11(x)

\* m.first is the mapping applied first; stage counts the mappings applied.
MapIdle == [base |-> 2, first |-> "forward", arg |-> 0, mid |-> 0, out |-> 0, stage |-> 2]

ApplyForward ==
    /\ \/ m.first = "forward" /\ m.stage = 0
       \/ m.first = "backward" /\ m.stage = 1
    /\ m' = IF m.stage = 0
            THEN [m EXCEPT !.mid = Forward(m.base, m.arg), !.stage = 1]
            ELSE [m EXCEPT !.out = Forward(m.base, m.mid), !.stage = 2]
    /\ UNCHANGED <<harnessVars, pc, ret, sieveVars, segVars, poolVars>>

ApplyBackward ==
    /\ \/ m.first = "backward" /\ m.stage = 0
       \/ m.first = "forward" /\ m.stage = 1
    /\ m' = IF m.stage = 0
            THEN [m EXCEPT !.mid = Backward(m.base, m.arg), !.stage = 1]
            ELSE [m EXCEPT !.out = Backward(m.base, m.mid), !.stage = 2]
    /\ UNCHANGED <<harnessVars, pc, ret, sieveVars, segVars, poolVars>>

\* ------------------------------------------------------------------------
\* Specifications
\* ------------------------------------------------------------------------

\* No call in progress: the locals of the operations hold no value yet.
InitRegisters ==
    /\ wheel5 = 0
    /\ wheel7 = {}
    /\ o = 0

InitOthers ==
    /\ res = <<>>
    /\ pc = "idle"
    /\ ret = "top"
    /\ sn = 0
    /\ knownPrimes = <<>>
    /\ notPrime = {}
    /\ marks = {}
    /\ cardinality = 0
    /\ threadBoundary = 0
    /\ p = 0
    /\ count = 0
    /\ gn = 0
    /\ nCardinality = 0
    /\ low = 0
    /\ high = 0
    /\ fLo = 0
    /\ sqrtIndex = 0
    /\ k = 0
    /\ sqrtnp1 = 0
    /\ practicalLimit = 0
    /\ queue = <<>>
    /\ running = {}

InitLocals == InitRegisters /\ InitOthers

\* The client runs all four operations for a small n, or the two plain
\* operations for an n at which the marking loop passes its barrier.
Init ==
    /\ width = BigIntBits
    /\ \/ n \in 0..MaxN /\ todo = FullSchedule
       \/ n \in BarrierN..BarrierN /\ todo = SieveSchedule
    /\ InitLocals
    /\ m = MapIdle

NextSieve ==
    \/ CallSieve \/ SieveMark \/ SieveBarrier \/ SieveRead
    \/ SieveFinish \/ SieveDrain \/ SieveReturn
    \/ CallCount \/ CountMark \/ CountBarrier \/ CountRead
    \/ CountFinish \/ CountDrain \/ CountReturn
    \/ WorkerTake \/ SieveJobStep

NextSegmented ==
    \/ CallSegSieve \/ SegSieveDelegateReturn \/ SegSieveSetup \/ SegSieveWindow
    \/ SegSieveDispatch \/ SegSieveFinish \/ SegSieveScan
    \/ CallSegCount \/ SegCountDelegateReturn \/ SegCountSetup \/ SegCountWindow
    \/ SegCountDispatch \/ SegCountFinish \/ SegCountScan
    \/ SegJobStep

Next == NextSieve \/ NextSegmented

Spec == Init /\ [][Next]_vars

\* The client runs the two plain operations in the narrow build, for
\* arguments up to the upper quarter of the range of BigInteger.
InitNarrow ==
    /\ width = NarrowBits
    /\ n \in 0..MaxNarrowN
    /\ todo = SieveSchedule
    /\ InitLocals
    /\ m = MapIdle

SpecNarrow == InitNarrow /\ [][NextSieve]_vars

\* The narrow build with the largest representable argument added, under the scheduling
\* the worker threads and the calling thread get: a thread that can take a
\* step eventually takes one.
InitNarrowAll ==
    /\ width = NarrowBits
    /\ n \in (0..MaxNarrowN) \cup {2 ^ NarrowBits - 1}
    /\ todo = SieveSchedule
    /\ InitLocals
    /\ m = MapIdle

FairScheduling ==
    /\ WF_vars(NextSieve)
    /\ WF_vars(WorkerTake)
    /\ WF_vars(SieveJobStep)

SpecNarrowFair == InitNarrowAll /\ [][NextSieve]_vars /\ FairScheduling

\* The index mappings alone.
InitMap ==
    /\ width = BigIntBits
    /\ n = 0
    /\ todo = <<>>
    /\ InitLocals
    /\ m \in [base : WheelBases, first : {"forward", "backward"},
              arg : 0..MaxMapArg, mid : {0}, out : {0}, stage : {0}]

NextMap == ApplyForward \/ ApplyBackward

SpecMap == InitMap /\ [][NextMap]_vars

\* ------------------------------------------------------------------------
\* The rotating registers alone: o += GetWheel5and7Increment(wheel5, wheel7)
\* repeated from the initial values of lines 58-60
\* ------------------------------------------------------------------------

\* m.stage counts the calls made, m.mid is the last increment returned and
\* m.out the candidate forward(o).
InitWheel ==
    /\ width = BigIntBits
    /\ n = 0
    /\ todo = <<>>
    /\ InitOthers
    /\ wheel5 = Wheel5Init
    /\ wheel7 = Wheel7Init
    /\ o = 1
    /\ m = [base |-> 210, first |-> "wheel", arg |-> 1, mid |-> 0, out |-> forward(1), stage |-> 0]

\* o += GetWheel5and7Increment(wheel5, wheel7); const BigInteger p = forward(o);
ApplyWheelIncrement ==
    /\ m.first = "wheel"
    /\ m.stage < MaxWheelCalls
    /\ LET w == GetWheel5and7Increment(wheel5, wheel7)
       IN  /\ wheel5' = w.wheel5
           /\ wheel7' = w.wheel7
           /\ o' = Wrap(o + w.inc)
           /\ m' = [m EXCEPT !.mid = w.inc, !.out = forward(Wrap(o + w.inc)),
                              !.stage = m.stage + 1]
    /\ UNCHANGED <<harnessVars, pc, ret, segVars, poolVars>>
    /\ UNCHANGED <<sn, knownPrimes, notPrime, marks, cardinality, threadBoundary, p, count>>

NextWheel == ApplyWheelIncrement

SpecWheel == InitWheel /\ [][NextWheel]_vars

\* ------------------------------------------------------------------------
\* makeNotSpaceMultiple alone (part_001 lines 203-212), one step of its code
\* per action: m.arg is the argument, m.mid the local n, m.out the value
\* returned; m.stage is 0 on entry, 1 in the loop, 2 after the return
\* ------------------------------------------------------------------------

InitAdjust ==
    /\ width \in {NarrowBits, BigIntBits}
    /\ n = 0
    /\ todo = <<>>
    /\ InitLocals
    /\ m \in [base : {30}, first : {"makeNotSpaceMultiple"},
              arg : 0..MaxAdjustArg, mid : {0}, out : {0}, stage : {0}]

\* if ((n & 1U) == 0U) { --n; }
DecrementEven(x) == IF x % 2 = 0 THEN Wrap(x - 1) ELSE x

AdjustParity ==
    /\ m.first = "makeNotSpaceMultiple"
    /\ m.stage = 0
    /\ m' = [m EXCEPT !.mid = DecrementEven(m.arg), !.stage = 1]
    /\ UNCHANGED <<harnessVars, pc, ret, sieveVars, segVars, poolVars>>

\* while (((n % 3U) == 0U) || ((n % 5U) == 0U)) { n -= 2U; }
AdjustLoop ==
    /\ m.first = "makeNotSpaceMultiple"
    /\ m.stage = 1
    /\ (m.mid % 3 = 0) \/ (m.mid % 5 = 0)
    /\ m' = [m EXCEPT !.mid = Wrap(m.mid - 2)]
    /\ UNCHANGED <<harnessVars, pc, ret, sieveVars, segVars, poolVars>>

\* return n;
AdjustReturn ==
    /\ m.first = "makeNotSpaceMultiple"
    /\ m.stage = 1
    /\ ~((m.mid % 3 = 0) \/ (m.mid % 5 = 0))
    /\ m' = [m EXCEPT !.out = m.mid, !.stage = 2]
    /\ UNCHANGED <<harnessVars, pc, ret, sieveVars, segVars, poolVars>>

NextAdjust == AdjustParity \/ AdjustLoop \/ AdjustReturn

SpecAdjust == InitAdjust /\ [][NextAdjust]_vars

\* ------------------------------------------------------------------------
\* Base-30 SegmentedSieveOfEratosthenes of part_000 (lines 266-357).
\* BigInteger is an unbounded cpp_int there, so n is not wrapped.  Its
\* SieveOfEratosthenes (part_000 lines 146-264) is statement for statement
\* the one modelled above.
\* ------------------------------------------------------------------------

\* if (!(n & 1U)) { --n; }  while (((n % 3U) == 0) || ((n % 5U) == 0)) { n -= 2U; }
RECURSIVE SkipSpaceMultiples(_)
SkipSpaceMultiples(x) ==
    IF x % 3 = 0 \/ x % 5 = 0 THEN SkipSpaceMultiples(x - 2) ELSE x

Seg5Adjust(x) == SkipSpaceMultiples(IF x % 2 = 0 THEN x - 1 ELSE x)

\* Lines 277-286: adjustment of n, then delegation or bootstrap.
CallSeg5 ==
    /\ pc = "idle"
    /\ op = "segsieve5"
    /\ gn' = Seg5Adjust(n)
    /\ IF limit >= Seg5Adjust(n)
       THEN SieveOfEratosthenes(Seg5Adjust(n)) /\ ret' = "delegate"
       ELSE SieveOfEratosthenes(limit) /\ ret' = "bootstrap"
    /\ UNCHANGED <<harnessVars, poolVars, m>>
    /\ UNCHANGED <<nCardinality, low, high, fLo, sqrtIndex, k, sqrtnp1, practicalLimit>>

\* Line 284 (return of the delegated call) and lines 286-292 (the bootstrap
\* sieve has returned).
Seg5Setup ==
    /\ pc = "sieve_ret"
    /\ op = "segsieve5"
    /\ IF ret = "delegate"
       THEN /\ Return(knownPrimes)
            /\ UNCHANGED <<nCardinality, low, high>>
       ELSE /\ nCardinality' = backward5T(gn)
            /\ low' = backward5T(limit)
            /\ high' = backward5T(limit) + limit
            /\ pc' = "seg5_while"
            /\ UNCHANGED harnessVars
    /\ UNCHANGED <<ret, sieveVars, poolVars, m>>
    /\ UNCHANGED <<gn, fLo, sqrtIndex, k, sqrtnp1, practicalLimit>>

\* Lines 295-308: loop test, clamp of high, fLo, sqrtIndex and the window's
\* bit array; line 356 when the loop ends.
Seg5Window ==
    /\ pc = "seg5_while"
    /\ IF low < nCardinality
       THEN LET high1 == ClampHigh(high, nCardinality)
            IN  /\ high' = high1
                /\ fLo' = forward5(low)
                /\ sqrtIndex' = UpperBound(knownPrimes, sqrt(forward5(high1)) + 1)
                /\ cardinality' = high1 - low
                /\ notPrime' = {}
                /\ marks' = {}
                /\ k' = 3
                /\ pc' = "seg5_dispatch"
                /\ UNCHANGED <<harnessVars>>
       ELSE /\ Return(knownPrimes)
            /\ UNCHANGED <<high, fLo, sqrtIndex, cardinality, notPrime, marks, k>>
    /\ UNCHANGED <<ret, poolVars, m>>
    /\ UNCHANGED <<sn, knownPrimes, threadBoundary, wheel5, wheel7, o, p, count>>
    /\ UNCHANGED <<gn, nCardinality, low, sqrtnp1, practicalLimit>>

\* Lines 310-340: one iteration of the dispatch loop (k starts at 3), or its
\* exit.
Seg5Dispatch ==
    /\ pc = "seg5_dispatch"
    /\ IF k < sqrtIndex
       THEN /\ queue' = Append(queue, [SegJob(knownPrimes[k + 1]) EXCEPT !.kind = "seg5"])
            /\ k' = k + 1
            /\ pc' = "seg5_dispatch"
       ELSE /\ pc' = "seg5_finish"
            /\ UNCHANGED <<queue, k>>
    /\ UNCHANGED <<harnessVars, ret, sieveVars, running, m>>
    /\ UNCHANGED <<gn, nCardinality, low, high, fLo, sqrtIndex, sqrtnp1, practicalLimit>>

\* const size_t o = backward5(i) - low;
Seg5JobOffset(j) == backward5T(SegJobI(j)) - low

\* Lines 328-337: one loop iteration of a running window job: exit when
\* o > cardinality, else the write guarded by (i % 3U) && (i % 5U), and
\* i += p2.
Seg5JobStep ==
    /\ \E j \in running :
        /\ j.kind = "seg5"
        /\ IF Seg5JobOffset(j) > cardinality
           THEN /\ running' = running \ {j}
                /\ UNCHANGED <<notPrime, marks>>
           ELSE /\ IF SegJobI(j) % 3 # 0 /\ SegJobI(j) % 5 # 0
                   THEN /\ notPrime' = SetCells(notPrime, {Seg5JobOffset(j)})
                        /\ marks' = marks \cup {<<j.p, Seg5JobOffset(j)>>}
                   ELSE UNCHANGED <<notPrime, marks>>
                /\ running' = (running \ {j}) \cup
                      {[j EXCEPT !.i = SegJobI(j) + j.p * 2, !.at = "loop"]}
    /\ UNCHANGED <<harnessVars, pc, ret, segVars, queue, m>>
    /\ UNCHANGED <<sn, knownPrimes, cardinality, threadBoundary, wheel5, wheel7, o, p, count>>

\* Line 341: dispatch.finish();
Seg5Finish ==
    /\ pc = "seg5_finish"
    /\ PoolIdle
    /\ o' = 1
    /\ pc' = "seg5_scan"
    /\ UNCHANGED <<harnessVars, ret, segVars, poolVars, m>>
    /\ UNCHANGED <<sn, knownPrimes, notPrime, marks, cardinality, threadBoundary, wheel5, wheel7, p, count>>

\* Lines 344-352: one iteration of the scan, or the advance of low and high.
Seg5Scan ==
    /\ pc = "seg5_scan"
    /\ IF o <= cardinality
       THEN /\ knownPrimes' = IF o \in notPrime
                              THEN knownPrimes
                              ELSE Append(knownPrimes, forward5(o + low))
            /\ o' = o + 1
            /\ pc' = "seg5_scan"
            /\ UNCHANGED <<low, high>>
       ELSE /\ low' = low + limit
            /\ high' = low + limit + limit
            /\ pc' = "seg5_while"
            /\ UNCHANGED <<knownPrimes, o>>
    /\ UNCHANGED <<harnessVars, ret, poolVars, m>>
    /\ UNCHANGED <<sn, notPrime, marks, cardinality, threadBoundary, wheel5, wheel7, p, count>>
    /\ UNCHANGED <<gn, nCardinality, fLo, sqrtIndex, k, sqrtnp1, practicalLimit>>

InitSeg5 ==
    /\ width = BigIntBits
    /\ n \in 0..MaxSeg5N
    /\ todo = <<<<"segsieve5", Limit5>>>>
    /\ InitLocals
    /\ m = MapIdle

NextSeg5 ==
    \/ CallSeg5 \/ SieveMark \/ SieveFinish \/ SieveDrain
    \/ Seg5Setup \/ Seg5Window \/ Seg5Dispatch \/ Seg5Finish \/ Seg5Scan
    \/ WorkerTake \/ Seg5JobStep

SpecSeg5 == InitSeg5 /\ [][NextSeg5]_vars

\* ------------------------------------------------------------------------
\* Base-210 SieveOfEratosthenes of part_000 (lines 764-842); BigInteger is
\* an unbounded cpp_int
\* ------------------------------------------------------------------------

\* Lines 766-799: the two early returns, or the allocation of the bit array
\* and the initial loop state (threadBoundary = 81, o = 1).
CallSieve7 ==
    /\ pc = "idle"
    /\ op = "sieve7"
    /\ sn' = n
    /\ ret' = "top"
    /\ IF n < 2
       THEN /\ knownPrimes' = <<>>
            /\ pc' = "s7_ret"
            /\ UNCHANGED <<notPrime, marks, cardinality, threadBoundary, o>>
       ELSE IF n < 11
       THEN /\ knownPrimes' = Prefix(BasePrimes, UpperBound(BasePrimes, n))
            /\ pc' = "s7_ret"
            /\ UNCHANGED <<notPrime, marks, cardinality, threadBoundary, o>>
       ELSE /\ knownPrimes' = BasePrimes
            /\ cardinality' = backward7(n)
            /\ notPrime' = {}
            /\ marks' = {}
            /\ threadBoundary' = 81
            /\ o' = 1
            /\ pc' = "s7_loop"
    /\ UNCHANGED <<harnessVars, segVars, poolVars, m>>
    /\ UNCHANGED <<wheel5, wheel7, p, count>>

\* The job as dispatched: for (BigInteger i = p * p; i <= n; i += 11U * p)
Sieve7Job(q) == [kind |-> "mark7", p |-> q, i |-> q * q, at |-> "first"]

\* Lines 800-825: one iteration of the marking loop.  The iteration blocks
\* in dispatch.finish() when threadBoundary < p; it changes o nowhere.
\* The vector is capped at MaxKnown7 entries.
Sieve7Mark ==
    /\ pc = "s7_loop"
    /\ Len(knownPrimes) < MaxKnown7
    /\ LET p1 == forward7(o)
       IN  /\ p' = p1
           /\ IF p1 * p1 > sn
              THEN /\ pc' = "s7_finish"
                   /\ UNCHANGED <<threadBoundary, knownPrimes, queue>>
              ELSE /\ (threadBoundary < p1) => PoolIdle
                   /\ threadBoundary' = IF threadBoundary < p1
                                        THEN threadBoundary * threadBoundary
                                        ELSE threadBoundary
                   /\ pc' = "s7_loop"
                   /\ IF o \in notPrime
                      THEN UNCHANGED <<knownPrimes, queue>>
                      ELSE /\ knownPrimes' = Append(knownPrimes, p1)
                           /\ queue' = Append(queue, Sieve7Job(p1))
    /\ UNCHANGED <<harnessVars, ret, segVars, running, m>>
    /\ UNCHANGED <<sn, notPrime, marks, cardinality, wheel5, wheel7, o, count>>

\* One iteration of a running job: notPrime[backward7(i)] = true; i += 11U * p
Sieve7JobStep ==
    /\ \E j \in running :
        /\ j.kind = "mark7"
        /\ IF j.i <= sn
           THEN /\ notPrime' = SetCells(notPrime, {backward7(j.i)})
                /\ marks' = marks \cup {<<j.p, backward7(j.i)>>}
                /\ running' = (running \ {j}) \cup {[j EXCEPT !.i = j.i + 11 * j.p]}
           ELSE /\ running' = running \ {j}
                /\ UNCHANGED <<notPrime, marks>>
    /\ UNCHANGED <<harnessVars, pc, ret, segVars, queue, m>>
    /\ UNCHANGED <<sn, knownPrimes, cardinality, threadBoundary, wheel5, wheel7, o, p, count>>

\* Lines 827-829: dispatch.finish(); ++o;
Sieve7Finish ==
    /\ pc = "s7_finish"
    /\ PoolIdle
    /\ o' = o + 1
    /\ pc' = "s7_drain"
    /\ UNCHANGED <<harnessVars, ret, segVars, poolVars, m>>
    /\ UNCHANGED <<sn, knownPrimes, notPrime, marks, cardinality, threadBoundary, wheel5, wheel7, p, count>>

\* Lines 830-841: one iteration of the drain loop (the continue for a
\* marked cell leaves o as it is), or its exit and the return.
Sieve7Drain ==
    /\ pc = "s7_drain"
    /\ LET p1 == forward7(o)
       IN  /\ p' = p1
           /\ IF p1 > sn
              THEN /\ Return(knownPrimes)
                   /\ UNCHANGED <<knownPrimes, o>>
              ELSE /\ IF o \in notPrime
                      THEN UNCHANGED <<knownPrimes, o>>
                      ELSE /\ knownPrimes' = Append(knownPrimes, p1)
                           /\ o' = o + 1
                   /\ pc' = "s7_drain"
                   /\ UNCHANGED harnessVars
    /\ UNCHANGED <<ret, segVars, poolVars, m>>
    /\ UNCHANGED <<sn, notPrime, marks, cardinality, threadBoundary, wheel5, wheel7, count>>

\* Lines 768 and 773: the early returns.
Sieve7Return ==
    /\ pc = "s7_ret"
    /\ Return(knownPrimes)
    /\ UNCHANGED <<ret, sieveVars, segVars, poolVars, m>>

InitSieve7 ==
    /\ width = BigIntBits
    /\ n \in 0..MaxSieve7N
    /\ todo = <<<<"sieve7", 0>>>>
    /\ InitLocals
    /\ m = MapIdle

NextSieve7 ==
    \/ CallSieve7 \/ Sieve7Mark \/ Sieve7Finish \/ Sieve7Drain \/ Sieve7Return
    \/ WorkerTake \/ Sieve7JobStep

SpecSieve7 == InitSieve7 /\ [][NextSieve7]_vars

\* ------------------------------------------------------------------------
\* sqrt alone (part_001 lines 121-145), in the 29-bit and in the narrow
\* build: m.arg is the argument and m.out the value returned
\* ------------------------------------------------------------------------

InitSqrt ==
    /\ width \in {NarrowBits, BigIntBits}
    /\ n = 0
    /\ todo = <<>>
    /\ InitLocals
    /\ m \in [base : {2}, first : {"sqrt"}, arg : 0..MaxSqrtArg,
              mid : {0}, out : {0}, stage : {0}]

\* const BigInteger r = sqrt(x);
ApplySqrt ==
    /\ m.first = "sqrt"
    /\ m.stage = 0
    /\ m' = [m EXCEPT !.out = sqrt(m.arg), !.stage = 2]
    /\ UNCHANGED <<harnessVars, pc, ret, sieveVars, segVars, poolVars>>

NextSqrt == ApplySqrt

SpecSqrt == InitSqrt /\ [][NextSqrt]_vars

\* ------------------------------------------------------------------------
\* The closed-form backward5 alone (part_001 lines 165-167), in the 29-bit
\* and in the narrow build: m.mid is backward5(m.arg) and m.out is
\* backward5(m.arg + 1)
\* ------------------------------------------------------------------------

InitRank ==
    /\ width \in {NarrowBits, BigIntBits}
    /\ n = 0
    /\ todo = <<>>
    /\ InitLocals
    /\ m \in [base : {30}, first : {"backward5"}, arg : 0..MaxRankArg,
              mid : {0}, out : {0}, stage : {0}]

\* const size_t cell = backward5(x); for two neighbouring arguments
ApplyBackward5 ==
    /\ m.first = "backward5"
    /\ m.stage = 0
    /\ m' = [m EXCEPT !.mid = backward5(m.arg), !.out = backward5(m.arg + 1),
                       !.stage = 2]
    /\ UNCHANGED <<harnessVars, pc, ret, sieveVars, segVars, poolVars>>

NextRank == ApplyBackward5

SpecRank == InitRank /\ [][NextRank]_vars

\* ------------------------------------------------------------------------
\* bi_div_mod of the word-array BigInteger (part_003 lines 151-243), on a
\* BigInteger of two 4-bit words.  big_integer.hpp is not part of the
\* sources: bi_log2, bi_compare, bi_sub_ip, bi_add_ip and the shifts are
\* the exact operations on the w-bit value, bi_log2 being the index of the
\* highest set bit (operator* treats bi_log2(right) == 0 as right == 1).
\* ------------------------------------------------------------------------

\* BIG_INTEGER_HALF_WORD_BITS, BIG_INTEGER_HALF_WORD_POW and
\* BIG_INTEGER_HALF_WORD_SIZE of the two-word build.
HalfWordBits == 2

HalfWordPow == 2 ^ HalfWordBits

HalfWordSize == NarrowBits \div HalfWordBits

RECURSIVE bi_log2(_)
bi_log2(x) == IF x <= 1 THEN 0 ELSE 1 + bi_log2(x \div 2)

\* The half word i of x (i = 0 is the lowest).
HalfWord(x, i) == (x \div (HalfWordPow ^ i)) % HalfWordPow

\* bi_div_mod_small, lines 110-146: schoolbook division on half words from
\* the highest one down; carry is the running remainder.
RECURSIVE SmallDivLoop(_, _, _, _, _)
SmallDivLoop(left, right, i, quo, carry) ==
    IF i < 0
    THEN [quotient |-> quo, rmndr |-> carry]
    ELSE LET c == carry * HalfWordPow + HalfWord(left, i)
         IN  SmallDivLoop(left, right, i - 1,
                          Wrap(quo + Wrap((c \div right) * (HalfWordPow ^ i))),
                          c % right)

bi_div_mod_small(left, right) == SmallDivLoop(left, right, HalfWordSize - 1, 0, 0)

DivVars == <<harnessVars, pc, ret, sieveVars, segVars, poolVars>>

InitDiv ==
    /\ width = NarrowBits
    /\ n = 0
    /\ todo = <<>>
    /\ InitLocals
    /\ m \in [first : {"bi_div_mod"}, left : 0..MaxDivArg, right : 1..MaxDivArg,
              quotient : {0}, rmndr : {0}, rightLog2 : {0}, stage : {0}]

\* Lines 153-200: the left < right path, the equal path and the half-word
\* divisor path return; otherwise rightLog2 is computed (lines 202-207) and
\* the loop is entered with rem = left and quotient = 0.
DivModEntry ==
    /\ m.first = "bi_div_mod"
    /\ m.stage = 0
    /\ m' = IF m.left < m.right
            THEN [m EXCEPT !.quotient = 0, !.rmndr = m.left, !.stage = 2]
            ELSE IF m.left = m.right
            THEN [m EXCEPT !.quotient = 1, !.rmndr = 0, !.stage = 2]
            ELSE IF m.right < HalfWordPow
            THEN [m EXCEPT !.quotient = bi_div_mod_small(m.left, m.right).quotient,
                           !.rmndr = bi_div_mod_small(m.left, m.right).rmndr,
                           !.stage = 2]
            ELSE [m EXCEPT !.quotient = 0, !.rmndr = m.left,
                           !.rightLog2 = IF m.right < 2 ^ bi_log2(m.right)
                                         THEN bi_log2(m.right) + 1
                                         ELSE bi_log2(m.right),
                           !.stage = 1]
    /\ UNCHANGED DivVars

\* Lines 211-222: one iteration of while (bi_compare(rem, right) >= 0).
DivModStep ==
    /\ m.first = "bi_div_mod"
    /\ m.stage = 1
    /\ m.rmndr >= m.right
    /\ LET logDiff == bi_log2(m.rmndr) - m.rightLog2
       IN  m' = IF logDiff > 0
                THEN [m EXCEPT !.rmndr = Wrap(m.rmndr - Wrap(m.right * 2 ^ logDiff)),
                               !.quotient = Wrap(m.quotient + Wrap(2 ^ logDiff))]
                ELSE [m EXCEPT !.rmndr = Wrap(m.rmndr - m.right),
                               !.quotient = Wrap(m.quotient + 1)]
    /\ UNCHANGED DivVars

\* Lines 211 and 235-237: the loop ends, *rmndr = rem.
DivModReturn ==
    /\ m.first = "bi_div_mod"
    /\ m.stage = 1
    /\ m.rmndr < m.right
    /\ m' = [m EXCEPT !.stage = 2]
    /\ UNCHANGED DivVars

NextDiv == DivModEntry \/ DivModStep \/ DivModReturn

SpecDiv == InitDiv /\ [][NextDiv]_vars

\* ------------------------------------------------------------------------
\* Properties
\* ------------------------------------------------------------------------

SieveCall == <<"sieve", 0>>

CountCall == <<"count", 0>>

SegSieveCall(l) == <<"segsieve", l>>

SegCountCall(l) == <<"segcount", l>>

Done(c) == c \in DOMAIN res

\* x shares no prime factor with the wheel base.
CoprimeToBase(x, base) == \A q \in {2, 3, 5, 7, 11} : base % q # 0 \/ x % q # 0

\* The round trip of the mapping pair of a base, in the order m.first says,
\* gives back the argument (forward first: index >= 1; backward first:
\* number coprime to the base).
RoundTrip(bases) ==
    (m.stage = 2 /\ m.base \in bases) =>
        /\ (m.first = "forward" /\ m.arg >= 1) => m.out = m.arg
        /\ (m.first = "backward" /\ CoprimeToBase(m.arg, m.base)) => m.out = m.arg

\* A window size whose first window ends at or below limit_simple^2, so
\* that the bootstrap primes are a complete factor base for it.
FactorBaseCovers(l) == limit_simple + 2 * l <= limit_simple * limit_simple

\* The window sizes that satisfy it.
CoveredLimits == {l \in Limits : FactorBaseCovers(l)}

\* C1: whenever SieveOfEratosthenes(n) returns, under any interleaving of
\* its marking jobs, the returned values are exactly the primes <= n.
C1_SieveReturnsExactlyThePrimes ==
    pc = "sieve_ret" => Range(knownPrimes) = PrimeSet(sn)

\* A sieve call whose marking jobs have written cells has returned.
C1_Witness ==
    /\ pc = "sieve_ret"
    /\ op = "sieve"
    /\ sn >= BarrierN
    /\ notPrime # {}

\* C2: CountPrimesTo(n) equals the length of the sequence returned by
\* SieveOfEratosthenes(n).
C2_CountEqualsSieveLength ==
    (Done(SieveCall) /\ Done(CountCall)) => res[CountCall] = Len(res[SieveCall])

\* Both calls have returned for an n beyond the table lookup, after the
\* counting loops have run over marked cells.
C2_Witness ==
    /\ Done(SieveCall)
    /\ Done(CountCall)
    /\ res[CountCall] > 5
    /\ n >= 121

\* C3: SegmentedSieveOfEratosthenes(n) returns the same ordered sequence as
\* SieveOfEratosthenes(n), for every n >= 0 (n = 2 and the other small even
\* n included) and whether it delegates or runs windows.
C3_SegmentedSieveEqualsSieve ==
    \A l \in CoveredLimits :
        (Done(SieveCall) /\ Done(SegSieveCall(l))) =>
            res[SegSieveCall(l)] = res[SieveCall]

\* C4: SegmentedCountPrimesTo(n) equals CountPrimesTo(n) for every n >= 0.
C4_SegmentedCountEqualsCount ==
    \A l \in CoveredLimits :
        (Done(CountCall) /\ Done(SegCountCall(l))) =>
            res[SegCountCall(l)] = res[CountCall]

\* C5: for n = 0 and n = 1 the segmented sieve returns the empty sequence
\* and the segmented count returns 0: the decrement of an even n does not
\* wrap n = 0 around and no sieve work is started.
C5_SegmentedEmptyBelowTwo ==
    \A l \in CoveredLimits :
        /\ (n < 2 /\ Done(SegSieveCall(l))) => res[SegSieveCall(l)] = <<>>
        /\ (n < 2 /\ Done(SegCountCall(l))) => res[SegCountCall(l)] = 0
        /\ (n < 2 /\ op \in {"segsieve", "segcount"}) =>
               pc \in {"idle", "sieve_ret", "count_ret"}

C7_KnownPrimesStrictlyIncreasing ==
    op \in {"sieve", "segsieve"} => StrictlyIncreasing(knownPrimes)

\* The scan of a window after the first has appended to knownPrimes.
C7_Witness ==
    /\ op = "segsieve"
    /\ pc = "seg_scan"
    /\ low > backward2(limit_simple)
    /\ Len(knownPrimes) > 8
    /\ Back(knownPrimes) = forward2(Wrap(o - 1 + low))

\* C8: backward(forward(i)) = i and backward2(forward2(i)) = i for i >= 1;
\* forward(backward(n)) = n for n coprime to 6 and
\* forward2(backward2(n)) = n for odd n.
C8_RoundTripBase2And6 == RoundTrip({2, 6})

\* Both orders of the base-6 pair have been applied to an argument > 6.
C8_Witness ==
    /\ m.stage = 2
    /\ m.base = 6
    /\ m.first = "backward"
    /\ m.arg = 35
    /\ m.mid = 12

\* C9: the table-driven pairs of bases 30, 210 and 2310 round-trip:
\* backward(forward(i)) = i for i >= 1, forward(backward(n)) = n for n
\* coprime to the base.
C9_RoundTripTables == RoundTrip({30, 210, 2310})

\* C10: when the marking loop of SieveOfEratosthenes or CountPrimesTo reads
\* the cell of a candidate p, p <= threadBoundary and every job that is
\* still queued or running belongs to a prime q with q * q > threadBoundary
\* (so none with q * q <= p); the drain loop reads with no job outstanding.
C10_ReadsAfterMarking ==
    /\ pc \in {"sieve_read", "count_read"} =>
          /\ p <= threadBoundary
          /\ \A j \in Outstanding : j.p * j.p > threadBoundary /\ j.p * j.p > p
          /\ \A j \in running : backward5(p) \notin SieveJobWrites(j)
    /\ pc \in {"sieve_drain", "count_drain"} => Outstanding = {}

\* A cell is read after the first barrier while a job dispatched after
\* that barrier is still outstanding.
C10_Witness ==
    /\ pc = "sieve_read"
    /\ threadBoundary > ThreadBoundaryInit
    /\ Outstanding # {}

\* Positions of the controller inside SieveOfEratosthenes while its bit
\* array is allocated.
SievePcs == {"sieve_loop", "sieve_barrier", "sieve_read", "sieve_finish", "sieve_drain"}

\* The barrier epoch in which the job of prime q is dispatched: 0 before the
\* first barrier (q <= 36), 1 between the first and the second barrier.
EpochOf(q) ==
    IF q <= ThreadBoundaryInit THEN 0
    ELSE IF q <= ThreadBoundaryInit * ThreadBoundaryInit THEN 1
    ELSE 2

\* The writes made by the jobs of barrier epoch e.
EpochMarks(e) == {a \in marks : EpochOf(a[1]) = e}

\* C11: within one barrier epoch of SieveOfEratosthenes no cell of notPrime
\* is written by the marking jobs of two different primes (the writes of
\* the epoch are as many as the cells they went to).
C11_JobsWriteDisjointCells ==
    pc \in SievePcs =>
        \A e \in 0..2 :
            Cardinality({a[2] : a \in EpochMarks(e)}) = Cardinality(EpochMarks(e))

\* Positions of the controller at which it allocates a bit array.
AllocatingPcs == {"idle", "seg_while", "segc_while"}

\* C12: a step of a marking job (a worker advances or ends a running job)
\* only adds cells to the set of true cells and changes nothing else than
\* the job itself: not knownPrimes, not the counter, no other local of the
\* controller; a cell that is true stays true until the controller
\* allocates the next array; knownPrimes and the counter change only in
\* steps of the controller.
C12_JobsOnlySetCells ==
    [][ /\ (queue' = queue /\ running' # running) =>
              /\ notPrime \subseteq notPrime'
              /\ UNCHANGED <<knownPrimes, count, cardinality, sn, threadBoundary,
                             wheel5, wheel7, o, p, pc, ret, segVars, harnessVars>>
        /\ notPrime \subseteq notPrime' \/ pc \in AllocatingPcs
        /\ (knownPrimes' # knownPrimes \/ count' # count) => running' = running
      ]_vars

\* Jobs have run to the barrier of a window and one cell was set by two of
\* them: the second store left it true.
C12_Witness ==
    /\ pc \in {"seg_finish", "segc_finish"}
    /\ PoolIdle
    /\ Cardinality(marks) > Cardinality(notPrime)
    /\ Len(knownPrimes) > 4

\* Positions of the segmented controller inside a window, in the order of
\* the code: the dispatch loop, the barrier, the scan.
DispatchPcs == {"seg_dispatch", "segc_dispatch"}

BarrierPcs == {"seg_finish", "segc_finish"}

ScanPcs == {"seg_scan", "segc_scan"}

WhilePcs == {"seg_while", "segc_while"}

\* C13: in every window of the segmented controller the barrier is reached
\* only after the dispatch loop has dispatched all jobs of the window
\* (k has reached sqrtIndex); the scan and the next loop test, which
\* allocates the next window's array, run with no job queued or running;
\* knownPrimes, the counter, low and the array are not changed by the
\* controller while it dispatches or waits; and the controller moves from
\* the barrier only to the scan, from the scan only to the loop test.
C13_WindowDispatchFinishScan ==
    /\ [](/\ pc \in BarrierPcs \cup ScanPcs => ~(k < sqrtIndex)
          /\ pc \in ScanPcs \cup WhilePcs => Outstanding = {}
          /\ pc \in DispatchPcs \cup BarrierPcs =>
                \A j \in Outstanding : j.kind = "seg")
    /\ [][ /\ pc \in DispatchPcs \cup BarrierPcs =>
                  UNCHANGED <<knownPrimes, count, low, high, cardinality, fLo>>
           /\ (pc \in BarrierPcs /\ pc' # pc) => (pc' \in ScanPcs /\ Outstanding = {})
           /\ (pc \in ScanPcs /\ pc' # pc) => pc' \in WhilePcs
           /\ (pc \in DispatchPcs /\ pc' # pc) => pc' \in BarrierPcs
         ]_vars

\* The scan of a later window runs after jobs of that window have written
\* cells.
C13_Witness ==
    /\ pc \in ScanPcs
    /\ low > backward2(limit_simple)
    /\ marks # {}
    /\ o > 1

Coprime210(x) == x % 2 # 0 /\ x % 3 # 0 /\ x % 5 # 0 /\ x % 7 # 0

RegistersInitial == wheel5 = Wheel5Init /\ wheel7 = Wheel7Init

\* C14: after c >= 1 calls of GetWheel5and7Increment from o = 1 and the
\* initial registers, forward(o) is the c-th integer greater than 7 that is
\* coprime to 210: the candidates are exactly these integers, in
\* increasing order, none skipped and no multiple of 5 or 7 among them.
C14_WheelVisitsCoprimesTo210 ==
    (m.first = "wheel" /\ m.stage >= 1) =>
        /\ m.out = forward(o)
        /\ m.out > 7
        /\ Coprime210(m.out)
        /\ Cardinality({x \in 8..m.out : Coprime210(x)}) = m.stage

\* The wheel has gone through more than two of its periods and has just
\* stepped over a multiple of 5 and a multiple of 7 at once.
C14_Witness ==
    /\ m.first = "wheel"
    /\ m.stage > 100
    /\ m.mid = 3

\* C15 as stated: the register pair is back at its initial value after
\* every 35 calls.
C15_RegistersReturnAfter35Calls ==
    (m.first = "wheel" /\ m.stage % 35 = 0) => RegistersInitial

\* C15: the register pair is back at its initial value exactly after
\* every 48 calls (48 = the number of residues coprime to 210), and by
\* then the increments returned add up to 70 = 2 * 35 per period, which is
\* 210 on the number line.
C15_RegistersReturnAfter48Calls ==
    m.first = "wheel" =>
        /\ RegistersInitial <=> m.stage % 48 = 0
        /\ m.stage % 48 = 0 => (o = 1 + 70 * (m.stage \div 48) /\ m.out = 1 + 210 * (m.stage \div 48))

\* The registers are back at their initial value for the second time.
C15_Witness ==
    /\ m.first = "wheel"
    /\ m.stage = 96
    /\ RegistersInitial

Coprime30(x) == x % 2 # 0 /\ x % 3 # 0 /\ x % 5 # 0

\* The multiples q * mm of q with mm >= q, q * mm <= bound, coprime to 30.
MultiplesToMark(q, bound) ==
    {x \in {q * mm : mm \in q..(bound \div q)} : Coprime30(x)}

\* The primes whose marking job SieveOfEratosthenes has dispatched.
Dispatched == {q \in Range(knownPrimes) : q >= 11 /\ q * q <= sn}

\* The cells set by the job of q.
CellsOf(q) == {a[2] : a \in {b \in marks : b[1] = q}}

\* C16: in SieveOfEratosthenes, once the job of a prime q >= 11 is neither
\* queued nor running, the cells it has set are exactly the cells
\* backward5(q * mm) of the multiples with mm >= q, q * mm <= n, coprime to
\* 30; and no two numbers coprime to 30 share a cell, so none of these is
\* the cell of a number that is not such a multiple (of a prime, say).
\* The second fact depends on n alone and is evaluated once per call, when
\* a call that has dispatched a job returns.
C16_JobMarksExactlyItsMultiples ==
    /\ pc \in SievePcs =>
          \A q \in Dispatched :
              (\A j \in Outstanding : j.p # q) =>
                  CellsOf(q) = {backward5(x) : x \in MultiplesToMark(q, sn)}
    /\ (pc = "sieve_ret" /\ Dispatched # {}) =>
          LET numbers == {x \in 1..sn : Coprime30(x)}
          IN  Cardinality({backward5(x) : x \in numbers}) = Cardinality(numbers)

\* The jobs of a prime with p % 3 = 2 and of one with p % 3 = 1 are both
\* complete, and a later job is still outstanding.
C16_Witness ==
    /\ pc \in SievePcs
    /\ {11, 13} \subseteq Dispatched
    /\ \A j \in Outstanding : j.p > 13
    /\ Outstanding # {}
    /\ Cardinality(CellsOf(13)) > 10

\* C17: every index used on a bit array is within its allocation
\* 0..cardinality: the index backward5(p) read by the marking loop and by
\* the drain loop of SieveOfEratosthenes / CountPrimesTo, the index the
\* next step of a running job writes, the offset read by the scan of a
\* window, and every cell that has been set.
C17_IndicesWithinAllocation ==
    /\ pc \in {"sieve_read", "count_read"} => backward5(p) <= cardinality
    /\ (pc \in {"sieve_drain", "count_drain"} /\ forward(o) <= sn) =>
          backward5(forward(o)) <= cardinality
    /\ \A j \in running :
          j.kind = "mark" => \A c \in SieveJobWrites(j) : c <= cardinality
    /\ (pc \in ScanPcs /\ o <= cardinality) => o \in 0..cardinality
    /\ \A c \in notPrime : c <= cardinality

\* C18: in SieveOfEratosthenes no intermediate value leaves the range of
\* BigInteger: the square p * p of the candidate just tested against n,
\* the next i += p2 / i += p4 of every running job, and the square of
\* threadBoundary taken at a barrier are all below 2^width; and the
\* sequence returned holds exactly the primes up to n.
C18_NoIntermediateValueWraps ==
    /\ pc \in {"sieve_read", "sieve_barrier", "sieve_finish"} => p * p < Mod
    /\ pc \in SievePcs =>
          \A j \in running :
              j.kind = "mark" =>
                  j.i + (IF j.at = "first" THEN 4 ELSE 2) * j.p < Mod
    /\ pc = "sieve_barrier" => threadBoundary * threadBoundary < Mod
    /\ (pc = "sieve_ret" /\ op = "sieve") => Range(knownPrimes) = PrimeSet(sn)

\* C19: makeNotSpaceMultiple(n) returns a value m <= n that is odd and not
\* divisible by 3 or 5, with no integer coprime to 30 in (m, n]; in
\* particular it never returns a value greater than n.
C19_AdjustsDownToNearestCandidate ==
    (m.first = "makeNotSpaceMultiple" /\ m.stage = 2) =>
        /\ m.out <= m.arg
        /\ m.out % 2 = 1
        /\ m.out % 3 # 0
        /\ m.out % 5 # 0
        /\ \A x \in (m.out + 1)..m.arg : ~Coprime30(x)

\* The primes whose squares do not exceed the number of the window's
\* last index.
WindowPrimes ==
    LET last == forward2(high)
        root == CHOOSE r \in 0..last : r * r <= last /\ last < (r + 1) * (r + 1)
    IN  {q \in 2..root : IsPrime(q)}

\* C20: when the marking jobs of a window [low, high] are dispatched, in
\* both segmented operations, knownPrimes contains every prime q with
\* q*q <= forward2(high), and once the dispatch loop is over every odd such
\* prime has got a job (knownPrimes[1 .. sqrtIndex-1], counted from 0); this
\* holds also when practicalLimit = limit_simple < sqrt(n)+1.  Stated for
\* window sizes that the factor base of limit_simple covers.
C20_FactorBaseCoversWindow ==
    (FactorBaseCovers(limit) /\ pc \in DispatchPcs \cup BarrierPcs) =>
        LET wanted == WindowPrimes
        IN  /\ wanted \subseteq Range(knownPrimes)
            /\ pc \in BarrierPcs =>
                  \A q \in wanted \ {2} :
                      \E idx \in 2..sqrtIndex :
                          idx <= Len(knownPrimes) /\ knownPrimes[idx] = q

\* A window of SegmentedCountPrimesTo with practicalLimit = limit_simple <
\* sqrtnp1 whose jobs include one for a prime appended by an earlier window.
C20_Witness ==
    /\ pc = "segc_finish"
    /\ FactorBaseCovers(limit)
    /\ practicalLimit = limit_simple
    /\ practicalLimit < sqrtnp1
    /\ \E q \in WindowPrimes : q > limit_simple /\ q \in Range(knownPrimes)

\* C21: the base-30 segmented controller of part_000 returns exactly the
\* primes <= n in increasing order, for every n >= 0.
C21_Seg5ReturnsPrimes ==
    \A c \in DOMAIN res :
        c[1] = "segsieve5" =>
            /\ Range(res[c]) = PrimeSet(n)
            /\ StrictlyIncreasing(res[c])

\* Bound of the bootstrap sieve of the running segmented operation.
BootstrapLimit == IF op = "segsieve" THEN limit_simple ELSE practicalLimit

InWindow == pc \in DispatchPcs \cup BarrierPcs \cup ScanPcs

\* C22: the windows tile the index range.  Inside a window (low, high]:
\* low is the bootstrap index plus a multiple of limit, high is low + limit
\* cut at backward2(n), 1 <= cardinality = high - low <= limit, and every
\* number the scan examines is odd, above the bootstrap limit and at most n;
\* the first window begins at the first odd number above the bootstrap
\* limit and a window that ends at backward2(n) ends with n.  From window to
\* window low advances by limit and is the previous high unless the loop
\* ends, and the loop ends as soon as low >= backward2(n).
C22_WindowsTileIndexRange ==
    /\ [](InWindow =>
            /\ nCardinality = backward2(gn)
            /\ low >= backward2(BootstrapLimit)
            /\ (low - backward2(BootstrapLimit)) % limit = 0
            /\ high = (IF low + limit > nCardinality THEN nCardinality ELSE low + limit)
            /\ cardinality = high - low
            /\ cardinality >= 1 /\ cardinality <= limit
            /\ forward2(low + 1) = (IF low = backward2(BootstrapLimit)
                                    THEN BootstrapLimit + 2
                                    ELSE forward2(low) + 2)
            /\ (high = nCardinality) => forward2(low + cardinality) = gn
            /\ (pc \in ScanPcs /\ o <= cardinality) =>
                  /\ forward2(o + low) % 2 = 1
                  /\ forward2(o + low) > BootstrapLimit
                  /\ forward2(o + low) <= gn)
    /\ [][(pc \in ScanPcs /\ pc' \in WhilePcs) =>
             /\ o = cardinality + 1
             /\ low' = low + limit
             /\ (low' < nCardinality) => low' = high
             /\ (low' >= nCardinality) => high = nCardinality]_vars
    /\ [][(pc \in WhilePcs /\ low >= nCardinality) => pc' = "idle"]_vars
    /\ [][(pc \in WhilePcs /\ low < nCardinality) => pc' \in DispatchPcs]_vars

\* The scan is at the last cell of a window that is not the first and was
\* cut short at backward2(n).
C22_Witness ==
    /\ pc \in ScanPcs
    /\ low > backward2(BootstrapLimit)
    /\ cardinality < limit
    /\ o = cardinality
    /\ forward2(o + low) = gn

\* The residue table of a wheel base and the length phi(base) it must have.
TableOf(base) ==
    CASE base = 30 -> wheel5Table
      [] base = 210 -> wheel7Table
      [] base = 2310 -> wheel11Table

Totient(base) ==
    CASE base = 30 -> 8
      [] base = 210 -> 48
      [] base = 2310 -> 480

TableBases == {30, 210, 2310}

\* C23: each residue table has exactly phi(B) entries, is strictly
\* increasing, and holds exactly the integers of [1, B] coprime to B.
\* Stated at the argument of every mapping call: the table of the call's
\* base has phi(B) entries, the entry the argument selects is in [1, B] and
\* below its successor, and an argument in [1, B] is an entry exactly when
\* it is coprime to B.
C23_TablesHoldTheCoprimeResidues ==
    m.base \in TableBases =>
        LET t == TableOf(m.base)
            j == (m.arg % Len(t)) + 1
        IN  /\ Len(t) = Totient(m.base)
            /\ t[j] >= 1 /\ t[j] <= m.base
            /\ j < Len(t) => t[j] < t[j + 1]
            /\ (m.arg >= 1 /\ m.arg <= m.base) =>
                  (m.arg \in Range(t) <=> CoprimeToBase(m.arg, m.base))

\* A mapping has been applied to the last entry of the largest table.
C23_Witness ==
    /\ m.base = 2310
    /\ m.arg = 2309
    /\ m.stage = 2
    /\ m.arg \in Range(wheel11Table)

FinishPcs == {"sieve_barrier", "sieve_finish", "count_barrier", "count_finish"}

\* C24: under fair scheduling every marking job reaches its exit (the pool
\* becomes idle again), every dispatch.finish() returns, and both calls
\* eventually return, for every representable n.
C24_JobsExitAndCallsReturn ==
    /\ (~PoolIdle) ~> PoolIdle
    /\ (pc \in FinishPcs) ~> (pc \notin FinishPcs)
    /\ <>(todo = <<>>)

\* C25: in the base-210 SieveOfEratosthenes every iteration of the marking
\* loop and of the drain loop advances o, and the candidate at which the
\* marking loop stopped is examined by the drain loop: the first index the
\* drain loop examines is the one the marking loop stopped at.
C25_LoopsAdvanceAndSkipNothing ==
    /\ [][(pc = "s7_loop" /\ pc' = "s7_loop") => o' > o]_vars
    /\ [][(pc = "s7_drain" /\ pc' = "s7_drain") => o' > o]_vars
    /\ [][(pc = "s7_finish" /\ pc' = "s7_drain") => o' = o]_vars

\* C26: sqrt(x) is floor(sqrt(x)), the unique r with r*r <= x < (r+1)*(r+1),
\* for every x >= 0 representable in the width.
C26_SqrtIsFloorOfRoot ==
    (m.first = "sqrt" /\ m.stage = 2) =>
        /\ m.out * m.out <= m.arg
        /\ m.arg < (m.out + 1) * (m.out + 1)

\* The elements of a finite set of numbers in increasing order.
RECURSIVE Ascending(_)
Ascending(S) ==
    IF S = {}
    THEN <<>>
    ELSE LET least == CHOOSE x \in S : \A y \in S : x <= y
         IN  <<least>> \o Ascending(S \ {least})

\* The windows of a segmented operation run one after the other with every
\* job finished before the scan: from the factor base kp, the count cnt and
\* the window start lw, up to the index nc, with window size lim.  A cell is
\* unmarked when no job of the window (knownPrimes[1 .. sqrtIndex-1]) has an
\* odd multiple there.  SegmentedSieveOfEratosthenes (which = "segsieve")
\* appends every unmarked number, SegmentedCountPrimesTo counts them and
\* appends those <= s1 while the last base prime is not above s1.
RECURSIVE SegWindows(_, _, _, _, _, _, _)
SegWindows(which, kp, cnt, lw, nc, lim, s1) ==
    IF ~(lw < nc)
    THEN [kp |-> kp, cnt |-> cnt]
    ELSE LET hi == ClampHigh(Wrap(lw + lim), nc)
             si == SqrtIndex(kp, hi)
             unmarked == {off \in 1..Wrap(hi - lw) :
                             \A idx \in 2..si : forward2(off + lw) % kp[idx] # 0}
             found == {forward2(off + lw) : off \in unmarked}
             added == IF which = "segsieve"
                      THEN found
                      ELSE IF Back(kp) > s1 THEN {} ELSE {q \in found : q <= s1}
         IN  SegWindows(which, kp \o Ascending(added), cnt + Cardinality(unmarked),
                        NextLow(lw, lim), nc, lim, s1)

\* The value call c returns for the argument n when its jobs run one after
\* the other.
SequentialResult(c) ==
    LET g == MakeOdd(n)
        s1 == Wrap(sqrt(g) + 1)
        pl == PracticalLimit(s1)
    IN  CASE c[1] = "sieve" -> Ascending(PrimeSet(n))
          [] c[1] = "count" -> Cardinality(PrimeSet(n))
          [] c[1] = "segsieve" ->
                IF limit_simple >= g
                THEN Ascending(PrimeSet(g))
                ELSE SegWindows("segsieve", Ascending(PrimeSet(limit_simple)), 0,
                                backward2(limit_simple), backward2(g), c[2], 0).kp
          [] c[1] = "segcount" ->
                IF limit_simple >= g
                THEN Cardinality(PrimeSet(g))
                ELSE SegWindows("segcount", Ascending(PrimeSet(pl)),
                                Cardinality(PrimeSet(pl)),
                                backward2(pl), backward2(g), c[2], s1).cnt

ReturnPcs == {"sieve_ret", "count_ret", "idle"}

\* C28: on every return path of the four operations no marking job of the
\* call is still queued or running: when the controller reaches a return,
\* and when the value is handed to the caller, the pool is idle.
C28_NoJobOutlivesItsCall ==
    /\ [](pc \in ReturnPcs => Outstanding = {})
    /\ [][(pc # "idle" /\ pc' = "idle") => (PoolIdle /\ queue' = <<>> /\ running' = {})]_vars

\* A segmented sieve whose last window ran marking jobs has returned and
\* the next call has not begun.
C28_Witness ==
    /\ pc = "idle"
    /\ marks # {}
    /\ Done(SegSieveCall(WideLimit))
    /\ ~Done(SegCountCall(WideLimit))

\* The 1-based rank of x among the positive integers coprime to 30.
Rank30(x) == Cardinality({y \in 1..x : Coprime30(y)})

\* C29: the closed-form backward5 is non-decreasing, and for an argument
\* coprime to 30 it is the argument's rank among the positive integers
\* coprime to 30, which is also the value of the table-driven backward5.
C29_ClosedFormIsRank ==
    (m.first = "backward5" /\ m.stage = 2) =>
        /\ m.mid <= m.out
        /\ Coprime30(m.arg) =>
              /\ m.mid = Rank30(m.arg)
              /\ m.mid = backward5T(m.arg)

\* C30: bi_div_mod(left, right, &q, &r) with right > 0 yields
\* left = q * right + r with 0 <= r < right, and in the shift-subtract loop
\* right << logDiff never exceeds the current remainder.
C30_DivModIsExact ==
    /\ (m.first = "bi_div_mod" /\ m.stage = 2) =>
          /\ m.left = m.quotient * m.right + m.rmndr
          /\ m.rmndr >= 0
          /\ m.rmndr < m.right
    /\ (m.first = "bi_div_mod" /\ m.stage = 1 /\ m.rmndr >= m.right
            /\ bi_log2(m.rmndr) > m.rightLog2) =>
          m.right * 2 ^ (bi_log2(m.rmndr) - m.rightLog2) <= m.rmndr

====
